---- MODULE Spec2Model ----
(***************************************************************************)
(* A model of tach, a compact cpu monitor: the /proc/stat line parser      *)
(* (src/src/stat.rs), the typed counter arithmetic (src/src/stat/          *)
(* user_hz.rs, src/src/stat/cpu_time.rs), the clocks and stats sources     *)
(* (src/src/source.rs), the stateful Sentinel (src/src/sentinel.rs), the   *)
(* read of /proc/stat (src/src/lib.rs) and the meter (src/src/meter.rs).   *)
(*                                                                         *)
(* Text is modelled character by character: a line is a sequence of        *)
(* one-character strings, a table a sequence of lines.  A UserHz is a u32; *)
(* it is kept as two 16-bit limbs [hi, lo] so that the full 32-bit width   *)
(* and its wrap-around are represented exactly.                            *)
(***************************************************************************)
EXTENDS Integers, Sequences, FiniteSets, TLC

VARIABLES
    inner,            \* Sentinel.inner: the Initialized / Running enum
    overflow_checks,  \* build profile: TRUE = debug (overflow panics), FALSE = release (wraps)
    aborted,          \* a panic has unwound out of the last call
    calls,            \* number of observe() calls made so far
    cur,              \* history: the last call (state before, instant and table, result)
    hist,             \* history: the last call before cur that returned Ok, and failures since
    pin,              \* input of the pure-function specifications
    pout              \* output of the pure-function specifications

vars == <<inner, overflow_checks, aborted, calls, cur, hist, pin, pout>>

(***************************************************************************)
(* Bounds of the model.                                                    *)
(***************************************************************************)
\* the most calls of observe() made on one Sentinel.
MaxCalls == 3
\* the instants the clock can tell are 0 .. MaxTime.
MaxTime == 2

None == [kind |-> "None"]

(***************************************************************************)
(* UserHz(u32): 32-bit unsigned arithmetic on two 16-bit limbs.            *)
(***************************************************************************)
Limb == 65536

U32Of(n) == [hi |-> n \div Limb, lo |-> n % Limb]

U32Zero == U32Of(0)

U32Max == [hi |-> Limb - 1, lo |-> Limb - 1]

U32Lt(a, b) == a.hi < b.hi \/ (a.hi = b.hi /\ a.lo < b.lo)

U32Le(a, b) == a = b \/ U32Lt(a, b)

\* a - b modulo 2^32.
U32WrappingSub(a, b) ==
    LET lo == a.lo - b.lo
        borrow == IF lo < 0 THEN 1 ELSE 0
        hi == a.hi - b.hi - borrow
    IN  [hi |-> (hi + Limb) % Limb, lo |-> (lo + Limb) % Limb]

\* a + b modulo 2^32, and whether the true sum overflowed.
U32OverflowingAdd(a, b) ==
    LET lo == a.lo + b.lo
        hi == a.hi + b.hi + (lo \div Limb)
    IN  [v |-> [hi |-> hi % Limb, lo |-> lo % Limb], overflow |-> hi >= Limb]

\* a * 10 + d, None-like on overflow (the step of the integer parser).
U32MulAddDigit(a, d) ==
    LET lo == a.lo * 10 + d
        hi == a.hi * 10 + (lo \div Limb)
    IN  [v |-> [hi |-> hi % Limb, lo |-> lo % Limb], overflow |-> hi >= Limb]

\* impl Sub for UserHz: `Self(lhs - rhs)`.  The subtraction is the primitive
\* u32 `-`: it panics on underflow when the build has overflow checks
\* (debug), and wraps when it has not (release).
UserHz_sub(lhs, rhs, oc) ==
    IF U32Lt(lhs, rhs) /\ oc
    THEN [kind |-> "Panic", msg |-> "attempt to subtract with overflow"]
    ELSE [kind |-> "Ok", v |-> U32WrappingSub(lhs, rhs)]

\* impl Add for UserHz: `Self(lhs + rhs)`, the primitive u32 `+`.
UserHz_add(lhs, rhs, oc) ==
    LET s == U32OverflowingAdd(lhs, rhs)
    IN  IF s.overflow /\ oc
        THEN [kind |-> "Panic", msg |-> "attempt to add with overflow"]
        ELSE [kind |-> "Ok", v |-> s.v]

(***************************************************************************)
(* Integer parsing: <u32 as FromStr> and <u8 as FromStr> (core::num).      *)
(***************************************************************************)
Digits == <<"0", "1", "2", "3", "4", "5", "6", "7", "8", "9">>

IsDigit(c) == \E i \in 1..10 : Digits[i] = c

DigitVal(c) == (CHOOSE i \in 1..10 : Digits[i] = c) - 1

\* one step of the digit loop, n being acc * 10 + digit.
DigitStep(n, max) ==
    IF n.overflow \/ U32Lt(max, n.v)
    THEN [kind |-> "Err", e |-> "PosOverflow"]
    ELSE [kind |-> "Ok", v |-> n.v]

\* the digit loop: an invalid digit is reported where it stands, an
\* overflow where it happens.
RECURSIVE ParseDigits(_, _, _, _)
ParseDigits(s, i, acc, max) ==
    IF i > Len(s) THEN acc
    ELSE IF acc.kind = "Err" THEN acc
    ELSE IF ~IsDigit(s[i]) THEN [kind |-> "Err", e |-> "InvalidDigit"]
    ELSE ParseDigits(s, i + 1, DigitStep(U32MulAddDigit(acc.v, DigitVal(s[i])), max), max)

\* from_str_radix(s, 10) of an unsigned type whose greatest value is max:
\* an empty string and a lone sign are errors, one leading "+" is accepted,
\* "-" is not a digit.
ParseUnsigned(s, max) ==
    IF Len(s) = 0 THEN [kind |-> "Err", e |-> "Empty"]
    ELSE IF Len(s) = 1 /\ s[1] \in {"+", "-"} THEN [kind |-> "Err", e |-> "InvalidDigit"]
    ELSE ParseDigits(s, IF s[1] = "+" THEN 2 ELSE 1, [kind |-> "Ok", v |-> U32Zero], max)

\* impl FromStr for UserHz: `s.parse().map(Self)`, the inner type being u32.
UserHz_from_str(s) == ParseUnsigned(s, U32Max)

\* `suffix.parse::<u8>()`.
U8Max == 255

NarrowU8(r) == IF r.kind = "Ok" THEN [kind |-> "Ok", v |-> r.v.lo] ELSE r

u8_from_str(s) == NarrowU8(ParseUnsigned(s, U32Of(U8Max)))

(***************************************************************************)
(* The line parser: impl FromStr for Entry (src/src/stat.rs).              *)
(***************************************************************************)
FieldNames ==
    <<"user", "nice", "system", "idle", "iowait", "irq", "softirq", "steal",
      "guest", "guest_nice">>

\* `entry.split(' ')`: the pieces between single spaces (a tab is no
\* separator), empty pieces included.
RECURSIVE SplitSpace(_, _, _)
SplitSpace(s, i, piece) ==
    IF i > Len(s) THEN <<piece>>
    ELSE IF s[i] = " " THEN <<piece>> \o SplitSpace(s, i + 1, <<>>)
    ELSE SplitSpace(s, i + 1, Append(piece, s[i]))

\* `.filter(|t| t.is_empty().not()).collect::<Vec<_>>()`.
Tokens(entry) == SelectSeq(SplitSpace(entry, 1, <<>>), LAMBDA t : Len(t) > 0)

\* the line kinds that are recognized and carry no fields.
KnownKinds ==
    <<  [name |-> <<"p","a","g","e">>, tag |-> "Page"],
        [name |-> <<"s","w","a","p">>, tag |-> "Swap"],
        [name |-> <<"i","n","t","r">>, tag |-> "Intr"],
        [name |-> <<"d","i","s","k","_","i","o">>, tag |-> "DiskIo"],
        [name |-> <<"c","t","x","t">>, tag |-> "Ctxt"],
        [name |-> <<"b","t","i","m","e">>, tag |-> "Btime"],
        [name |-> <<"p","r","o","c","e","s","s","e","s">>, tag |-> "Processes"],
        [name |-> <<"p","r","o","c","s","_","r","u","n","n","i","n","g">>,
         tag |-> "ProcsRunning"],
        [name |-> <<"p","r","o","c","s","_","b","l","o","c","k","e","d">>,
         tag |-> "ProcsBlocked"],
        [name |-> <<"s","o","f","t","i","r","q">>, tag |-> "SoftIrq"] >>

\* Entry::parse_entry_kind: Either::Entry(kind) for a known kind, and
\* Either::Cpu(token) for every other token.
parse_entry_kind(kind) ==
    IF \E i \in 1..Len(KnownKinds) : KnownKinds[i].name = kind
    THEN [either |-> "Entry",
          entry |-> [tag |-> KnownKinds[CHOOSE i \in 1..Len(KnownKinds) :
                                            KnownKinds[i].name = kind].tag]]
    ELSE [either |-> "Cpu", cpu |-> kind]

CpuPrefix == <<"c", "p", "u">>

\* `.map(CpuId).map(Some).map_err(CpuIdParse)`.
CpuIdResult(r) ==
    IF r.kind = "Ok"
    THEN [kind |-> "Ok", id |-> [kind |-> "Some", v |-> r.v]]
    ELSE [kind |-> "Err", err |-> [tag |-> "CpuIdParse", e |-> r.e]]

\* a variant of parse_cpu_id that reports a suffix that is no number as an
\* unrecognized entry.
parse_cpu_id_unrecognized(token) ==
    IF ~(Len(token) >= 3 /\ SubSeq(token, 1, 3) = CpuPrefix)
    THEN [kind |-> "Err", err |-> [tag |-> "UnrecognizedEntry", token |-> token]]
    ELSE IF Len(token) = 3 THEN [kind |-> "Ok", id |-> None]
    ELSE IF u8_from_str(SubSeq(token, 4, Len(token))).kind = "Ok"
    THEN CpuIdResult(u8_from_str(SubSeq(token, 4, Len(token))))
    ELSE [kind |-> "Err", err |-> [tag |-> "UnrecognizedEntry", token |-> token]]

\* Entry::parse_cpu_id: Ok(None) for "cpu", Ok(Some(CpuId(n))) for "cpu<n>".
parse_cpu_id(token) ==
    IF ~(Len(token) >= 3 /\ SubSeq(token, 1, 3) = CpuPrefix)
    THEN [kind |-> "Err", err |-> [tag |-> "UnrecognizedEntry", token |-> token]]
    ELSE IF Len(token) = 3 THEN [kind |-> "Ok", id |-> None]
    ELSE CpuIdResult(u8_from_str(SubSeq(token, 4, Len(token))))

\* impl From<[UserHz; 10]> for CpuTime: the ten values in field order.
CpuTime_from(a) ==
    [user |-> a[1], nice |-> a[2], system |-> a[3], idle |-> a[4], iowait |-> a[5],
     irq |-> a[6], softirq |-> a[7], steal |-> a[8], guest |-> a[9],
     guest_nice |-> a[10]]

\* impl Into<[UserHz; 10]> for CpuTime.
CpuTime_into(t) ==
    <<t.user, t.nice, t.system, t.idle, t.iowait, t.irq, t.softirq, t.steal,
      t.guest, t.guest_nice>>

\* a variant of the conversion that takes the first ten values and stands
\* zeros in for the ones that are missing.
CpuTime_try_from_padded(times) ==
    [kind |-> "Ok",
     time |-> CpuTime_from([i \in 1..10 |-> IF i <= Len(times) THEN times[i] ELSE U32Zero])]

\* impl TryFrom<Vec<UserHz>> for CpuTime: exactly ten values, or CpuTime.
CpuTime_try_from(times) ==
    IF Len(times) = 10
    THEN [kind |-> "Ok", time |-> CpuTime_from(times)]
    ELSE [kind |-> "Err", err |-> [tag |-> "CpuTime"]]

\* one value more, or the error that ends the collection.
PushUserHz(acc, r) ==
    IF r.kind = "Ok" THEN [kind |-> "Ok", v |-> Append(acc, r.v)] ELSE r

\* `.map(str::parse::<UserHz>).collect::<Result<Vec<_>, _>>()
\*  .map_err(EntryParseError::UserHzParse)`: the values, or the error of the
\* first token that does not parse.
RECURSIVE CollectUserHz(_, _, _)
CollectUserHz(tokens, i, acc) ==
    IF acc.kind = "Err" THEN [kind |-> "Err", err |-> [tag |-> "UserHzParse", e |-> acc.e]]
    ELSE IF i > Len(tokens) THEN [kind |-> "Ok", times |-> acc.v]
    ELSE CollectUserHz(tokens, i + 1, PushUserHz(acc.v, UserHz_from_str(tokens[i])))

\* `.and_then(CpuTime::try_from)`.
AndThenTryFrom(vals) == IF vals.kind = "Ok" THEN CpuTime_try_from(vals.times) ELSE vals

\* `Ok(if let Some(id) = id { Self::Cpu { id, time } } else { Self::AllCpu { time } })`
\* after the `?` on the id and on the time.
BuildEntry(id, time) ==
    IF time.kind = "Err" THEN time
    ELSE IF id.kind = "Some"
    THEN [kind |-> "Ok", entry |-> [tag |-> "Cpu", id |-> id.v, time |-> time.time]]
    ELSE [kind |-> "Ok", entry |-> [tag |-> "AllCpu", time |-> time.time]]

\* a variant of the cpu arm that parses the times before it looks at the id.
ParseCpu_times_first(id, rest) ==
    IF AndThenTryFrom(CollectUserHz(rest, 1, [kind |-> "Ok", v |-> <<>>])).kind = "Err"
    THEN AndThenTryFrom(CollectUserHz(rest, 1, [kind |-> "Ok", v |-> <<>>]))
    ELSE IF id.kind = "Err" THEN id
    ELSE BuildEntry(id.id, AndThenTryFrom(CollectUserHz(rest, 1, [kind |-> "Ok", v |-> <<>>])))

\* the cpu arm: the id, then the times.
ParseCpu(id, rest) ==
    IF id.kind = "Err" THEN id
    ELSE BuildEntry(id.id, AndThenTryFrom(CollectUserHz(rest, 1, [kind |-> "Ok", v |-> <<>>])))

\* a variant of the match that returns the entry of a kind without fields
\* only when the tokens after it are counter values.
MatchKind_checked(kind, rest) ==
    IF kind.either = "Entry"
    THEN IF CollectUserHz(rest, 1, [kind |-> "Ok", v |-> <<>>]).kind = "Err"
         THEN CollectUserHz(rest, 1, [kind |-> "Ok", v |-> <<>>])
         ELSE [kind |-> "Ok", entry |-> kind.entry]
    ELSE ParseCpu(parse_cpu_id(kind.cpu), rest)

\* `match Self::parse_entry_kind(kind)`.
MatchKind(kind, rest) ==
    IF kind.either = "Entry" THEN [kind |-> "Ok", entry |-> kind.entry]
    ELSE ParseCpu(parse_cpu_id(kind.cpu), rest)

\* `let [kind, tokens @ ..] = tokens.as_slice() else { todo!() }`.
ParseTokens(tokens) ==
    IF Len(tokens) = 0 THEN [kind |-> "Panic", msg |-> "not yet implemented"]
    ELSE MatchKind(parse_entry_kind(tokens[1]), Tail(tokens))

\* impl FromStr for Entry.
Entry_from_str(entry) == ParseTokens(Tokens(entry))

(***************************************************************************)
(* Measurement (src/src/stat/cpu_time.rs).                                 *)
(***************************************************************************)
\* one difference more, or the panic that ends the call.
PushDiff(acc, d) ==
    IF d.kind = "Ok" THEN [kind |-> "Ok", times |-> Append(acc, d.v)] ELSE d

\* `a.iter().enumerate().map(|(i, a_i)| b[i] - *a_i).collect::<Vec<_>>()`.
RECURSIVE SubEach(_, _, _, _, _)
SubEach(a, b, i, acc, oc) ==
    IF acc.kind = "Panic" THEN acc
    ELSE IF i > Len(a) THEN acc
    ELSE SubEach(a, b, i + 1, PushDiff(acc.times, UserHz_sub(b[i], a[i], oc)), oc)

\* `.try_into().unwrap()` and the Measurement of the ten differences.
MeasurementOf(d) ==
    IF d.kind = "Panic" THEN d
    ELSE [kind |-> "Ok", m |-> CpuTime_try_from(d.times).time]

\* Measurement::new(a, b): field i is b[i] - a[i].
Measurement_new(a, b, oc) ==
    MeasurementOf(SubEach(CpuTime_into(a), CpuTime_into(b), 1,
                          [kind |-> "Ok", times |-> <<>>], oc))

\* the sum of the fields named, left to right, in u32: an overflow panics
\* when the build checks it and wraps when it does not.
RECURSIVE SumFields(_, _, _, _, _)
SumFields(m, names, i, acc, oc) ==
    IF acc.kind = "Panic" THEN acc
    ELSE IF i > Len(names) THEN acc
    ELSE SumFields(m, names, i + 1, UserHz_add(acc.v, m[names[i]], oc), oc)

\* Measurement::active: every field but idle.
active(m, oc) ==
    SumFields(m, <<"nice", "system", "iowait", "irq", "softirq", "steal", "guest",
                   "guest_nice">>, 1, [kind |-> "Ok", v |-> m.user], oc)

\* Measurement::total: the same sum, and idle.
total(m, oc) ==
    SumFields(m, <<"nice", "system", "iowait", "irq", "softirq", "steal", "guest",
                   "guest_nice", "idle">>, 1, [kind |-> "Ok", v |-> m.user], oc)

(***************************************************************************)
(* f64 arithmetic, as far as percentage() uses it.  A finite positive      *)
(* double is [cls |-> "num", top, m]: m is its 53-bit significand, most    *)
(* significant bit first (m[1] = 1), and bit m[i] weighs 2^(top - i + 1).  *)
(* Every operation rounds to nearest, ties to even.                        *)
(***************************************************************************)
\* the bits of a significand.
MantissaBits == 53

Zeros(n) == [i \in 1..n |-> 0]

\* bit p (0 = least significant) of a u32.
U32Bit(a, p) == IF p >= 16 THEN (a.hi \div (2 ^ (p - 16))) % 2 ELSE (a.lo \div (2 ^ p)) % 2

\* one bit of x + y, from the last bit to the first: st.i is the bit to add,
\* st.carry the carry into it, st.acc the bits of the sum after it.
AddStep(x, y, st) ==
    IF st.i = 0 THEN st
    ELSE [i |-> st.i - 1,
          carry |-> (x[st.i] + y[st.i] + st.carry) \div 2,
          acc |-> <<(x[st.i] + y[st.i] + st.carry) % 2>> \o st.acc]

\* x + y on bits of one length, most significant first; the carry out comes
\* first.
RECURSIVE AddLoop(_, _, _)
AddLoop(x, y, st) ==
    IF st.i = 0 THEN <<st.carry>> \o st.acc
    ELSE AddLoop(x, y, AddStep(x, y, AddStep(x, y, AddStep(x, y, AddStep(x, y, st)))))

AddBits(x, y, carry) == AddLoop(x, y, [i |-> Len(x), carry |-> carry, acc |-> <<>>])

\* x + 1 on bits; the carry out comes first.
IncBits(x) == AddBits(x, Zeros(Len(x)), 1)

\* the value of a few bits, most significant first.
RECURSIVE BitsValue(_, _)
BitsValue(x, n) == IF n = 0 THEN 0 ELSE 2 * BitsValue(x, n - 1) + x[n]

\* the double of the bits `sum` (carry out first, then 53 bits) at top.
Renormalized(sum, top) ==
    IF sum[1] = 1
    THEN [cls |-> "num", top |-> top + 1, m |-> SubSeq(sum, 1, MantissaBits)]
    ELSE [cls |-> "num", top |-> top, m |-> SubSeq(sum, 2, MantissaBits + 1)]

\* round to nearest, ties to even: bits holds the 53 bits kept and the bit
\* after them; sticky tells whether anything nonzero follows.
RoundNearestEven(bits, sticky, top) ==
    IF bits[MantissaBits + 1] = 1 /\ (sticky \/ bits[MantissaBits] = 1)
    THEN Renormalized(IncBits(SubSeq(bits, 1, MantissaBits)), top)
    ELSE [cls |-> "num", top |-> top, m |-> SubSeq(bits, 1, MantissaBits)]

\* 2 * r + bit, r being a remainder below a u32 divisor.
RemShift(r, bit) ==
    [hi |-> 2 * r.hi + ((2 * r.lo + bit) \div Limb), lo |-> (2 * r.lo + bit) % Limb]

RemGe(r, t) == r.hi > t.hi \/ (r.hi = t.hi /\ r.lo >= t.lo)

RemSub(r, t) ==
    [hi |-> r.hi - t.hi - (IF r.lo < t.lo THEN 1 ELSE 0), lo |-> (r.lo - t.lo + Limb) % Limb]

\* the place of the highest 1 bit of a nonzero u32.
U32HighBit(a) ==
    CHOOSE p \in 0..31 : U32Bit(a, p) = 1 /\ \A q \in (p + 1)..31 : U32Bit(a, q) = 0

\* a * 2^k where the product fits in u32, a \div 2^(-k) where k is negative.
U32Shift(a, k) ==
    IF k >= 16 THEN [hi |-> (a.lo * (2 ^ (k - 16))) % Limb, lo |-> 0]
    ELSE IF k >= 0
    THEN [hi |-> (a.hi * (2 ^ k) + ((a.lo * (2 ^ k)) \div Limb)) % Limb,
          lo |-> (a.lo * (2 ^ k)) % Limb]
    ELSE IF k > -16
    THEN [hi |-> a.hi \div (2 ^ (-k)),
          lo |-> (a.hi % (2 ^ (-k))) * (2 ^ (16 + k)) + (a.lo \div (2 ^ (-k)))]
    ELSE [hi |-> 0, lo |-> a.hi \div (2 ^ (-k - 16))]

\* one bit of the long division of a by t: st.r2 is the remainder with the
\* bit of a that weighs 2^(st.p) brought down, st.acc the bits of the quotient
\* from its first 1 on, st.top the place of that 1.  The first 1 and the 53
\* bits after it are kept.
DivStep(a, t, st) ==
    IF Len(st.acc) = MantissaBits + 1 THEN st
    ELSE IF RemGe(st.r2, t)
    THEN [p |-> st.p - 1,
          r2 |-> RemShift(RemSub(st.r2, t), IF st.p >= 1 THEN U32Bit(a, st.p - 1) ELSE 0),
          acc |-> Append(st.acc, 1),
          top |-> IF Len(st.acc) = 0 THEN st.p ELSE st.top]
    ELSE [p |-> st.p - 1,
          r2 |-> RemShift(st.r2, IF st.p >= 1 THEN U32Bit(a, st.p - 1) ELSE 0),
          acc |-> IF Len(st.acc) = 0 THEN st.acc ELSE Append(st.acc, 0),
          top |-> st.top]

RECURSIVE DivBits(_, _, _)
DivBits(a, t, st) ==
    IF Len(st.acc) = MantissaBits + 1 THEN st
    ELSE DivBits(a, t, DivStep(a, t, DivStep(a, t, DivStep(a, t, DivStep(a, t, st)))))

\* the double nearest to the quotient whose bits are q.acc, the rest of the
\* division being q.r2.
RoundQuotient(q) == RoundNearestEven(q.acc, q.r2 # [hi |-> 0, lo |-> 0], q.top)

\* a / t from the place d where a and t line up: the bits of the quotient
\* above 2^d are all 0.
DivFrom(a, t, d) ==
    RoundQuotient(DivBits(a, t, [p |-> d, r2 |-> U32Shift(a, -d), acc |-> <<>>, top |-> 0]))

\* impl Div for UserHz: both counters as f64 (exactly), and lhs / rhs.
UserHz_div(lhs, rhs) ==
    IF rhs = U32Zero
    THEN IF lhs = U32Zero THEN [cls |-> "nan"] ELSE [cls |-> "inf"]
    ELSE IF lhs = U32Zero THEN [cls |-> "zero"]
    ELSE DivFrom(lhs, rhs, U32HighBit(lhs) - U32HighBit(rhs))

\* the 60 bits of m * 100 = m * 64 + m * 32 + m * 4.
Times100Bits(m) ==
    Tail(AddBits(Tail(AddBits(<<0>> \o m \o Zeros(6), <<0, 0>> \o m \o Zeros(5), 0)),
                 Zeros(5) \o m \o Zeros(2), 0))

\* the double nearest to the 60-bit product p, whose last bit weighs lsb.
RoundProduct(p, lsb) ==
    IF p[1] = 1
    THEN RoundNearestEven(SubSeq(p, 1, 54), \E i \in 55..60 : p[i] = 1, lsb + 59)
    ELSE RoundNearestEven(SubSeq(p, 2, 55), \E i \in 56..60 : p[i] = 1, lsb + 58)

\* x * 100.0.
F64_times100(x) ==
    IF x.cls # "num" THEN x
    ELSE RoundProduct(Times100Bits(x.m), x.top - (MantissaBits - 1))

\* the integer part of a double below 128.
F64_trunc(x) == IF x.cls # "num" \/ x.top < 0 THEN 0 ELSE BitsValue(x.m, x.top + 1)

\* whether the double is an integer.
F64_is_integer(x) ==
    x.cls = "zero" \/ (x.cls = "num" /\ x.top >= 0
                        /\ \A i \in (x.top + 2)..MantissaBits : x.m[i] = 0)

\* x <= 100.0; false of a NaN.
F64_le100(x) ==
    \/ x.cls = "zero"
    \/ /\ x.cls = "num"
       /\ x.top <= 6
       /\ (F64_trunc(x) < 100 \/ (F64_trunc(x) = 100 /\ F64_is_integer(x)))

\* x >= 0.0; false of a NaN.
F64_ge0(x) == x.cls # "nan"

\* f64::round of a double in [0, 100]: to the nearest integer, a half away
\* from zero; then `as u8`.
F64_round_u8(x) ==
    IF x.cls # "num" \/ x.top < -1 THEN 0
    ELSE F64_trunc(x) + x.m[x.top + 2]

\* the asserts and the rounding of percentage().
PercentOf(percent) ==
    IF ~F64_ge0(percent)
    THEN [kind |-> "Panic", msg |-> "assertion failed: percent >= 0.0"]
    ELSE IF ~F64_le100(percent)
    THEN [kind |-> "Panic", msg |-> "assertion failed: percent <= 100.0"]
    ELSE [kind |-> "Ok", v |-> F64_round_u8(percent)]

\* `(active / total) * 100.0` once both sums are made.
PercentageOf(a, t) ==
    IF a.kind = "Panic" THEN a
    ELSE IF t.kind = "Panic" THEN t
    ELSE PercentOf(F64_times100(UserHz_div(a.v, t.v)))

\* Measurement::percentage.
percentage(m, oc) == PercentageOf(active(m, oc), total(m, oc))

(***************************************************************************)
(* The meter (src/src/meter.rs).  A Cell is the number of its dots, 0 to   *)
(* 8.  A percentage is the double k / 2^PercentBits, written as k: it is   *)
(* exact, and so is its product with the resolution, an integer far below  *)
(* 2^53, so that the f64 product is the product of the numbers.            *)
(***************************************************************************)
\* percentages are multiples of 2^(-PercentBits).
PercentBits == 4

PercentUnit == 2 ^ PercentBits

\* Cell::RESOLUTION.
Cell_RESOLUTION == 8

\* `resolution as f64 * percentage`, then f64::round: to the nearest
\* integer, a half away from zero.
RoundedAmount(resolution, fraction) ==
    (2 * resolution * fraction + PercentUnit) \div (2 * PercentUnit)

\* `as u8` of a double that is a non-negative integer: the cast saturates.
F64_as_u8(n) == IF n > U8Max THEN U8Max ELSE n

\* impl TryFrom<u8> for Cell.
Cell_try_from(value) ==
    IF value <= 8 THEN [kind |-> "Ok", v |-> value] ELSE [kind |-> "Err", e |-> value]

\* `repeat_n(Cell::Eight, filled).chain(once(rem)).chain(repeat(Cell::Zero))
\*  .take(width).collect()`.
CellsOf(filled, rem, width) ==
    [i \in 1..width |-> IF i <= filled THEN 8 ELSE IF i = filled + 1 THEN rem ELSE 0]

\* the cells once the amount of dots is known.
ReadingOf(amount, width) ==
    IF Cell_try_from(amount % Cell_RESOLUTION).kind = "Err"
    THEN [kind |-> "Panic", msg |-> "remainder should not panic"]
    ELSE IF ~(amount \div Cell_RESOLUTION <= width)
    THEN [kind |-> "Panic", msg |-> "assertion failed: filled <= width"]
    ELSE [kind |-> "Ok",
          cells |-> CellsOf(amount \div Cell_RESOLUTION,
                            Cell_try_from(amount % Cell_RESOLUTION).v, width)]

\* placeholder(percentage, width), the percentage being fraction / PercentUnit.
placeholder(fraction, width) ==
    IF ~(fraction >= 0)
    THEN [kind |-> "Panic", msg |-> "assertion failed: percentage >= 0.0"]
    ELSE IF ~(fraction <= PercentUnit)
    THEN [kind |-> "Panic", msg |-> "assertion failed: percentage <= 1.0"]
    ELSE IF ~(width > 0)
    THEN [kind |-> "Panic", msg |-> "assertion failed: width > 0"]
    ELSE ReadingOf(F64_as_u8(RoundedAmount(Cell_RESOLUTION * width, fraction)), width)

(***************************************************************************)
(* Clocks and stats sources (src/src/source.rs).  SystemClock and          *)
(* ProcStatFile are unit structs: the instant and the table they yield are *)
(* drawn when they are asked.  A mock holds a queue; the model keeps the   *)
(* queue's length.  Default::default() of a mock is the empty queue, and   *)
(* nothing fills a mock.                                                   *)
(***************************************************************************)
SystemClock == [unit |-> "SystemClock"]

ProcStatFile == [unit |-> "ProcStatFile"]

MockStatClock_default == [times |-> 0]

MockStatFile_default == [stats |-> 0]

\* C::default() and S::default(), of the type of the value given.
Clock_default(clock) == IF clock = SystemClock THEN SystemClock ELSE MockStatClock_default

StatsSource_default(source) ==
    IF source = ProcStatFile THEN ProcStatFile ELSE MockStatFile_default

\* impl Clock for SystemClock: Instant::now().
SystemClock_now(clock, t) == [kind |-> "Ok", v |-> t, clock |-> clock]

\* impl StatsSource for ProcStatFile: File::open(Self::STAT).map(BufReader::new).
\* A file whose read fails is the blob with io = "Err": its lines are the
\* lines read before the failure.
ProcStatFile_open(source, blob) == [kind |-> "Ok", v |-> blob, source |-> source]

\* impl Clock for MockStatClock: pop_front().expect(..).
MockStatClock_now(clock, t) ==
    IF clock.times = 0
    THEN [kind |-> "Panic", msg |-> "mock times should not be empty", clock |-> clock]
    ELSE [kind |-> "Ok", v |-> t, clock |-> [times |-> clock.times - 1]]

\* impl StatsSource for MockStatFile: pop_front().map(Cursor::new).map(Ok)
\* .expect(..).  A source whose reader fails (StatsSource::open returning or
\* yielding an io::Error) is the blob with io = "Err": its lines are the
\* lines read before the failure.
MockStatFile_open(source, blob) ==
    IF source.stats = 0
    THEN [kind |-> "Panic", msg |-> "mock stats should not be empty", source |-> source]
    ELSE [kind |-> "Ok", v |-> blob, source |-> [stats |-> source.stats - 1]]

\* `clock.now()` and `source.open()` of a Sentinel<C, S>.
Clock_now(clock, t) ==
    IF clock = SystemClock THEN SystemClock_now(clock, t) ELSE MockStatClock_now(clock, t)

StatsSource_open(source, blob) ==
    IF source = ProcStatFile
    THEN ProcStatFile_open(source, blob)
    ELSE MockStatFile_open(source, blob)

(***************************************************************************)
(* Snapshot::read: the instant first, then every line of the table.        *)
(***************************************************************************)
\* one entry more, or the error (`?`) or panic that ends the read.
PushEntry(acc, e) ==
    IF e.kind = "Ok" THEN [kind |-> "Ok", entries |-> Append(acc, e.entry)]
    ELSE IF e.kind = "Err" THEN [kind |-> "Err", err |-> [tag |-> "Entry", e |-> e.err]]
    ELSE e

\* `for line in stats { let entry = line.parse::<Entry>()?; entries.push(entry) }`
RECURSIVE ParseLines(_, _, _)
ParseLines(lines, i, acc) ==
    IF acc.kind # "Ok" THEN acc
    ELSE IF i > Len(lines) THEN acc
    ELSE ParseLines(lines, i + 1, PushEntry(acc.entries, Entry_from_str(lines[i])))

\* `.filter_map(Entry::Cpu { id, time } => Some((id, time))).collect::<BTreeMap>()`:
\* of two lines with one id, the later one stays.
CollectCpus(entries) ==
    [id \in {entries[i].id : i \in {j \in 1..Len(entries) : entries[j].tag = "Cpu"}} |->
        entries[CHOOSE i \in 1..Len(entries) :
                    /\ entries[i].tag = "Cpu" /\ entries[i].id = id
                    /\ \A j \in (i + 1)..Len(entries) :
                            ~(entries[j].tag = "Cpu" /\ entries[j].id = id)].time]

\* the aggregate of a table that has a "cpu" line: the times of the first.
\* The tables a Sentinel reads here all have one.
FindSystem(entries) ==
    entries[CHOOSE i \in 1..Len(entries) :
                /\ entries[i].tag = "AllCpu"
                /\ \A j \in 1..(i - 1) : entries[j].tag # "AllCpu"].time

\* the Snapshot of the parsed entries at instant t.
SnapshotOfEntries(entries, t) ==
    [kind |-> "Ok",
     snapshot |-> [system |-> FindSystem(entries), cpus |-> CollectCpus(entries),
                   time |-> t]]

\* the first failure in line order ends the read: a malformed line among
\* the lines the reader yielded, or else the io::Error that follows them.
BuildSnapshot(blob, parsed, t) ==
    IF parsed.kind # "Ok" THEN parsed
    ELSE IF blob.io = "Err" THEN [kind |-> "Err", err |-> [tag |-> "Io"]]
    ELSE SnapshotOfEntries(parsed.entries, t)

\* the table of a blob, parsed line by line.
ReadBlob(blob, t) ==
    BuildSnapshot(blob, ParseLines(blob.lines, 1, [kind |-> "Ok", entries |-> <<>>]), t)

\* the read once the source is open.
ReadOpened(now, open, source, t, blob) ==
    IF open.kind = "Panic"
    THEN [kind |-> "Panic", msg |-> open.msg, clock |-> now.clock, source |-> source,
          time |-> [kind |-> "Some", v |-> t], blob |-> None]
    ELSE ReadBlob(blob, t)
         @@ [clock |-> now.clock, source |-> open.source,
             time |-> [kind |-> "Some", v |-> t], blob |-> [kind |-> "Some", v |-> blob]]

\* the read once the clock was asked.
ReadAt(now, source, clock, t, blob) ==
    IF now.kind = "Panic"
    THEN [kind |-> "Panic", msg |-> now.msg, clock |-> clock, source |-> source,
          time |-> None, blob |-> None]
    ELSE ReadOpened(now, StatsSource_open(source, blob), source, t, blob)

\* Snapshot::read(source, clock).  The result carries the clock and the
\* source as the read leaves them, and the instant and the blob it got.
Snapshot_read(source, clock, t, blob) ==
    ReadAt(Clock_now(clock, t), source, clock, t, blob)

(***************************************************************************)
(* Recording::new and Sentinel::observe (src/src/sentinel.rs).             *)
(***************************************************************************)
\* the keys of a BTreeMap in iteration (ascending) order.
RECURSIVE SortedKeys(_)
SortedKeys(S) ==
    IF S = {} THEN <<>>
    ELSE <<CHOOSE x \in S : \A y \in S : x <= y>>
         \o SortedKeys(S \ {CHOOSE x \in S : \A y \in S : x <= y})

\* `diff.insert(id_a, times)`, or the panic of Measurement::new.
InsertDiff(diff, id, times) ==
    IF times.kind = "Panic" THEN times
    ELSE [kind |-> "Ok", cpus |-> (id :> times.m) @@ diff]

\* a variant of the loop that pairs the processors by position and never
\* compares their ids.
RECURSIVE ZipCpus_unchecked(_, _, _, _, _, _, _)
ZipCpus_unchecked(cpus_a, cpus_b, keys_a, keys_b, i, diff, oc) ==
    IF diff.kind = "Panic" THEN diff
    ELSE IF i > Len(keys_a) THEN diff
    ELSE IF i > Len(keys_b)
    THEN [kind |-> "Panic", msg |-> "called Option::unwrap() on a None value"]
    ELSE ZipCpus_unchecked(cpus_a, cpus_b, keys_a, keys_b, i + 1,
                           InsertDiff(diff.cpus, keys_a[i],
                                      Measurement_new(cpus_a[keys_a[i]],
                                                      cpus_b[keys_b[i]], oc)), oc)

\* the `while let Some((id_a, times_a)) = a_iter.next()` loop.
RECURSIVE ZipCpus(_, _, _, _, _, _, _)
ZipCpus(cpus_a, cpus_b, keys_a, keys_b, i, diff, oc) ==
    IF diff.kind = "Panic" THEN diff
    ELSE IF i > Len(keys_a) THEN diff
    ELSE IF i > Len(keys_b)
    THEN [kind |-> "Panic", msg |-> "called Option::unwrap() on a None value"]
    ELSE IF keys_a[i] # keys_b[i]
    THEN [kind |-> "Panic", msg |-> "assertion failed: id_a == id_b"]
    ELSE ZipCpus(cpus_a, cpus_b, keys_a, keys_b, i + 1,
                 InsertDiff(diff.cpus, keys_a[i],
                            Measurement_new(cpus_a[keys_a[i]], cpus_b[keys_b[i]], oc)), oc)

\* the Recording of the two timestamps and the measurements.
RecordingOf(a, b, system, diff) ==
    IF system.kind = "Panic" THEN system
    ELSE IF diff.kind = "Panic" THEN diff
    ELSE IF Cardinality(DOMAIN b.cpus) > Cardinality(DOMAIN a.cpus)
    THEN [kind |-> "Panic", msg |-> "assertion failed: b_iter.next().is_none()"]
    ELSE [kind |-> "Ok",
          recording |-> [start |-> a.time, end |-> b.time,
                         system |-> system.m, cpus |-> diff.cpus]]

\* a variant of Recording::new whose assertion on the timestamps is
\* `time_b >= time_a`.
Recording_new_ge(a, b, oc) ==
    IF Cardinality(DOMAIN a.cpus) # Cardinality(DOMAIN b.cpus)
    THEN [kind |-> "Panic", msg |-> "assertion failed: cpus_a.len() == cpus_b.len()"]
    ELSE IF ~(b.time >= a.time)
    THEN [kind |-> "Panic", msg |-> "assertion failed: time_b >= time_a"]
    ELSE RecordingOf(a, b, Measurement_new(a.system, b.system, oc),
                     ZipCpus(a.cpus, b.cpus, SortedKeys(DOMAIN a.cpus),
                             SortedKeys(DOMAIN b.cpus), 1,
                             [kind |-> "Ok", cpus |-> <<>>], oc))

\* Recording::new(a, b).
Recording_new(a, b, oc) ==
    IF Cardinality(DOMAIN a.cpus) # Cardinality(DOMAIN b.cpus)
    THEN [kind |-> "Panic", msg |-> "assertion failed: cpus_a.len() == cpus_b.len()"]
    ELSE IF ~(b.time > a.time)
    THEN [kind |-> "Panic", msg |-> "assertion failed: time_b > time_a"]
    ELSE RecordingOf(a, b, Measurement_new(a.system, b.system, oc),
                     ZipCpus(a.cpus, b.cpus, SortedKeys(DOMAIN a.cpus),
                             SortedKeys(DOMAIN b.cpus), 1,
                             [kind |-> "Ok", cpus |-> <<>>], oc))

\* the Sentinel after `std::mem::take(clock)` and `std::mem::take(source)`:
\* Default values stand where the clock and the source of the read r were.
Taken(r) ==
    [state |-> "Initialized", clock |-> Clock_default(r.clock),
     source |-> StatsSource_default(r.source), last |-> None]

\* a variant of the Inner::Initialized arm that hands the clock and the
\* source back but never moves to Running.
InitializedArm_stays(r) ==
    IF r.kind = "Ok"
    THEN [inner |-> [state |-> "Initialized", clock |-> r.clock, source |-> r.source,
                     last |-> None],
          ret |-> [kind |-> "Ok", v |-> None], time |-> r.time, blob |-> r.blob]
    ELSE IF r.kind = "Err"
    THEN [inner |-> Taken(r), ret |-> [kind |-> "Err", err |-> r.err],
          time |-> r.time, blob |-> r.blob]
    ELSE [inner |-> Taken(r), ret |-> [kind |-> "Panic", msg |-> r.msg],
          time |-> r.time, blob |-> r.blob]

\* a variant of the Inner::Initialized arm in which a failed read leaves the
\* Sentinel with an empty MockStatClock and an empty MockStatFile.
InitializedArm_emptied(r) ==
    IF r.kind = "Ok"
    THEN [inner |-> [state |-> "Running", clock |-> r.clock, source |-> r.source,
                     last |-> r.snapshot],
          ret |-> [kind |-> "Ok", v |-> None], time |-> r.time, blob |-> r.blob]
    ELSE IF r.kind = "Err"
    THEN [inner |-> [state |-> "Initialized", clock |-> MockStatClock_default,
                     source |-> MockStatFile_default, last |-> None],
          ret |-> [kind |-> "Err", err |-> r.err], time |-> r.time, blob |-> r.blob]
    ELSE [inner |-> Taken(r), ret |-> [kind |-> "Panic", msg |-> r.msg],
          time |-> r.time, blob |-> r.blob]

\* the Inner::Initialized arm after the read: `?`, then the move to Running.
InitializedArm(r) ==
    IF r.kind = "Ok"
    THEN [inner |-> [state |-> "Running", clock |-> r.clock, source |-> r.source,
                     last |-> r.snapshot],
          ret |-> [kind |-> "Ok", v |-> None], time |-> r.time, blob |-> r.blob]
    ELSE IF r.kind = "Err"
    THEN [inner |-> Taken(r), ret |-> [kind |-> "Err", err |-> r.err],
          time |-> r.time, blob |-> r.blob]
    ELSE [inner |-> Taken(r), ret |-> [kind |-> "Panic", msg |-> r.msg],
          time |-> r.time, blob |-> r.blob]

\* the Inner::Initialized arm: the clock and the source are taken out of the
\* Sentinel (Default values are left in their place) before the read.
observe_initialized(inn, oc, t, blob) ==
    InitializedArm(Snapshot_read(inn.source, inn.clock, t, blob))

\* a variant of the return that drops the recording: `Ok(None)`.
RunningReturn_none(replaced, r, recording) ==
    IF recording.kind = "Panic"
    THEN [inner |-> replaced, ret |-> [kind |-> "Panic", msg |-> recording.msg],
          time |-> r.time, blob |-> r.blob]
    ELSE [inner |-> replaced, ret |-> [kind |-> "Ok", v |-> None],
          time |-> r.time, blob |-> r.blob]

\* `Ok(Some(recording))`, or the panic of Recording::new; `last` holds the
\* new snapshot by then.
RunningReturn(replaced, r, recording) ==
    IF recording.kind = "Panic"
    THEN [inner |-> replaced, ret |-> [kind |-> "Panic", msg |-> recording.msg],
          time |-> r.time, blob |-> r.blob]
    ELSE [inner |-> replaced,
          ret |-> [kind |-> "Ok", v |-> [kind |-> "Some", v |-> recording.recording]],
          time |-> r.time, blob |-> r.blob]

\* a variant of the Inner::Running arm that replaces `last` before the `?`:
\* a failed read leaves no baseline, and the Sentinel starts over.
RunningArm_forgets(inn, oc, r) ==
    IF r.kind = "Err"
    THEN [inner |-> [state |-> "Initialized", clock |-> r.clock, source |-> r.source,
                     last |-> None],
          ret |-> [kind |-> "Err", err |-> r.err], time |-> r.time, blob |-> r.blob]
    ELSE IF r.kind = "Panic"
    THEN [inner |-> [inn EXCEPT !.clock = r.clock, !.source = r.source],
          ret |-> [kind |-> "Panic", msg |-> r.msg], time |-> r.time, blob |-> r.blob]
    ELSE RunningReturn([inn EXCEPT !.clock = r.clock, !.source = r.source,
                                   !.last = r.snapshot],
                       r, Recording_new(inn.last, r.snapshot, oc))

\* a variant of the Inner::Running arm that never replaces `last`: every
\* recording is diffed against the first snapshot.
RunningArm_keeps(inn, oc, r) ==
    IF r.kind = "Err"
    THEN [inner |-> [inn EXCEPT !.clock = r.clock, !.source = r.source],
          ret |-> [kind |-> "Err", err |-> r.err], time |-> r.time, blob |-> r.blob]
    ELSE IF r.kind = "Panic"
    THEN [inner |-> [inn EXCEPT !.clock = r.clock, !.source = r.source],
          ret |-> [kind |-> "Panic", msg |-> r.msg], time |-> r.time, blob |-> r.blob]
    ELSE RunningReturn([inn EXCEPT !.clock = r.clock, !.source = r.source],
                       r, Recording_new(inn.last, r.snapshot, oc))

\* the Inner::Running arm after the read: `?`, then
\* `std::mem::replace(last, new.clone())` and Recording::new(prev, new).
RunningArm(inn, oc, r) ==
    IF r.kind = "Err"
    THEN [inner |-> [inn EXCEPT !.clock = r.clock, !.source = r.source],
          ret |-> [kind |-> "Err", err |-> r.err], time |-> r.time, blob |-> r.blob]
    ELSE IF r.kind = "Panic"
    THEN [inner |-> [inn EXCEPT !.clock = r.clock, !.source = r.source],
          ret |-> [kind |-> "Panic", msg |-> r.msg], time |-> r.time, blob |-> r.blob]
    ELSE RunningReturn([inn EXCEPT !.clock = r.clock, !.source = r.source,
                                   !.last = r.snapshot],
                       r, Recording_new(inn.last, r.snapshot, oc))

\* the Inner::Running arm.
observe_running(inn, oc, t, blob) ==
    RunningArm(inn, oc, Snapshot_read(inn.source, inn.clock, t, blob))

\* Sentinel::observe.
observe(inn, oc, t, blob) ==
    IF inn.state = "Initialized"
    THEN observe_initialized(inn, oc, t, blob)
    ELSE observe_running(inn, oc, t, blob)

(***************************************************************************)
(* What the source yields: tables written out as text.                     *)
(***************************************************************************)
\* the decimal digits of a natural number.
RECURSIVE Dec(_)
Dec(n) == IF n < 10 THEN <<Digits[n + 1]>> ELSE Append(Dec(n \div 10), Digits[(n % 10) + 1])

RECURSIVE JoinSpace(_)
JoinSpace(toks) ==
    IF Len(toks) = 0 THEN <<>>
    ELSE IF Len(toks) = 1 THEN toks[1]
    ELSE toks[1] \o <<" ">> \o JoinSpace(Tail(toks))

\* "cpu v1 .. v10" and "cpu<id> v1 .. v10".
CpuLine(label, ticks) == JoinSpace(<<label>> \o [i \in 1..Len(ticks) |-> Dec(ticks[i])])

\* the table of a sample: the aggregate line, one line per processor in
\* ascending order, and the lines that follow them in /proc/stat.
TableOf(data) ==
    LET ids == SortedKeys(DOMAIN data.cpus)
    IN  <<CpuLine(CpuPrefix, data.system)>>
        \o [i \in 1..Len(ids) |-> CpuLine(CpuPrefix \o Dec(ids[i]), data.cpus[ids[i]])]
        \o << <<"i","n","t","r"," ","7"," ","0">>, <<"c","t","x","t"," ","9">> >>

TextBlob(lines) == [io |-> "Ok", lines |-> lines]

SysA == <<10, 2, 3, 40, 1, 0, 1, 0, 0, 0>>
SysB == <<19, 4, 6, 70, 2, 3, 5, 7, 8, 9>>
SysC == <<30, 5, 8, 90, 0, 4, 6, 8, 9, 10>>
Cpu0A == <<6, 1, 2, 20, 1, 0, 1, 0, 0, 0>>
Cpu0B == <<8, 2, 5, 33, 2, 1, 3, 4, 6, 5>>
Cpu1A == <<4, 1, 1, 20, 0, 0, 0, 0, 0, 0>>
Cpu1B == <<11, 2, 1, 37, 0, 2, 2, 3, 2, 4>>

\* samples of one machine at three moments; in SampleC iowait has decreased.
SampleA == [system |-> SysA, cpus |-> (0 :> Cpu0A) @@ (1 :> Cpu1A)]
SampleB == [system |-> SysB, cpus |-> (0 :> Cpu0B) @@ (1 :> Cpu1B)]
SampleC == [system |-> SysC, cpus |-> (0 :> Cpu0B) @@ (1 :> Cpu1B)]
\* samples with another processor topology: one processor less, another id.
SampleOne == [system |-> SysB, cpus |-> (0 :> Cpu0B)]
SampleIds == [system |-> SysB, cpus |-> (0 :> Cpu0B) @@ (2 :> Cpu1B)]

Samples == {SampleA, SampleB, SampleC, SampleOne, SampleIds}

\* the well-formed tables.
GoodBlobs == {TextBlob(TableOf(d)) : d \in Samples}

\* "cpuA 0 0 0 0 0 0 0 0 0 0" in the place of the line of cpu0.
BadCpuIdLine == CpuLine(CpuPrefix \o <<"A">>, <<0, 0, 0, 0, 0, 0, 0, 0, 0, 0>>)
\* a cpu line with nine values.
ShortLine == CpuLine(CpuPrefix \o <<"1">>, <<4, 1, 1, 20, 0, 0, 0, 0, 0>>)

BlobBadCpuId == TextBlob(<<CpuLine(CpuPrefix, SysB), BadCpuIdLine>>)
BlobShort == TextBlob(<<CpuLine(CpuPrefix, SysB), CpuLine(CpuPrefix \o <<"0">>, Cpu0B), ShortLine>>)
\* tables with a malformed line.
MalformedBlobs == {BlobBadCpuId, BlobShort}

\* a source whose read fails.
BlobIoError == [io |-> "Err", lines |-> <<>>]

Blobs == GoodBlobs \cup MalformedBlobs \cup {BlobIoError}

Instants == 0..MaxTime

\* the Snapshot a sample taken at instant t stands for.
CpuTimeOf(ticks) == CpuTime_from([i \in 1..10 |-> U32Of(ticks[i])])

SnapshotOf(d, t) ==
    [system |-> CpuTimeOf(d.system),
     cpus |-> [id \in DOMAIN d.cpus |-> CpuTimeOf(d.cpus[id])],
     time |-> t]

\* the sample a well-formed table was written from.
SampleOfBlob(blob) == CHOOSE d \in Samples : TextBlob(TableOf(d)) = blob

(***************************************************************************)
(* The Sentinel as a state machine.                                        *)
(***************************************************************************)
NoPure == [kind |-> "None"]

\* the types a Sentinel<C, S> is built over.
Clocks == {SystemClock, MockStatClock_default}

StatsSources == {ProcStatFile, MockStatFile_default}

\* the history before the first call.
NoHist == [ok |-> None, failed |-> FALSE, err |-> None]

\* Sentinel::new(): Inner::Initialized with C::default() and S::default().
Init ==
    /\ \E c \in Clocks, s \in StatsSources :
            inner = [state |-> "Initialized", clock |-> c, source |-> s, last |-> None]
    /\ overflow_checks \in BOOLEAN
    /\ aborted = FALSE
    /\ calls = 0
    /\ cur = None
    /\ hist = NoHist
    /\ pin = NoPure
    /\ pout = NoPure

\* what the history keeps of the call before this one: err is the error it
\* returned, if it returned one.
NextHist ==
    IF cur = None THEN hist
    ELSE IF cur.ret.kind = "Ok"
    THEN [ok |-> [kind |-> "Some", time |-> cur.time.v, blob |-> cur.blob.v,
                  ret |-> cur.ret.v],
          failed |-> FALSE, err |-> None]
    ELSE IF cur.ret.kind = "Err"
    THEN [hist EXCEPT !.failed = TRUE, !.err = [kind |-> "Some", tag |-> cur.ret.err.tag]]
    ELSE [hist EXCEPT !.failed = TRUE, !.err = None]

\* the instant the clock told last: Instant::now() never goes back.
LastNow == IF cur = None \/ cur.time = None THEN 0 ELSE cur.time.v

\* one call of observe(); a panic ends the run.
Observe ==
    /\ ~aborted
    /\ calls < MaxCalls
    /\ \E t \in LastNow..MaxTime, blob \in Blobs :
        \E r \in {observe(inner, overflow_checks, t, blob)} :
            /\ inner' = r.inner
            /\ cur' = [pre |-> inner, time |-> r.time, blob |-> r.blob, ret |-> r.ret]
            /\ aborted' = (r.ret.kind = "Panic")
    /\ calls' = calls + 1
    /\ hist' = NextHist
    /\ UNCHANGED <<overflow_checks, pin, pout>>

Next == Observe

Spec == Init /\ [][Next]_vars

(***************************************************************************)
(* Sentinel::read (src/src/lib.rs), the read of /proc/stat into a Snapshot *)
(* of the processors' times, on its own: a table and an instant are drawn  *)
(* and the read is applied to them once.                                   *)
(***************************************************************************)
\* `for line in stats { let line = line?; let entry = line.parse()?; .. }`
\* and what follows the loop.  The first failure in line order ends the
\* read: a malformed (or tokenless) line among the lines read, or else the
\* io::Error of the line that could not be read.  After the loop the
\* entries of the processors are collected, every other entry is dropped,
\* and the Snapshot is returned.
ReadLines(blob, parsed, t) ==
    IF parsed.kind # "Ok" THEN parsed
    ELSE IF blob.io = "Err" THEN [kind |-> "Err", err |-> [tag |-> "Io"]]
    ELSE [kind |-> "Ok", snapshot |-> [cpus |-> CollectCpus(parsed.entries), time |-> t]]

\* the message of `.expect("file exists")` on a /proc/stat that does not
\* exist: the text given, then the io::Error.
FileExistsPanic ==
    "file exists: Os { code: 2, kind: NotFound, message: \"No such file or directory\" }"

\* Sentinel::read: Instant::now(), File::open(..).expect("file exists"),
\* then the lines.
Sentinel_read(blob, t) ==
    IF blob.io = "NoFile" THEN [kind |-> "Panic", msg |-> FileExistsPanic]
    ELSE ReadLines(blob, ParseLines(blob.lines, 1, [kind |-> "Ok", entries |-> <<>>]), t)

\* the lines of a processor each, and the lines that follow them; no "cpu"
\* line.
BlobNoAggregate ==
    TextBlob(<<CpuLine(CpuPrefix \o <<"0">>, Cpu0B), CpuLine(CpuPrefix \o <<"1">>, Cpu1B),
               <<"i","n","t","r"," ","7"," ","0">>>>)
\* no cpu line at all.
BlobNoCpu == TextBlob(<< <<"i","n","t","r"," ","7"," ","0">>, <<"c","t","x","t"," ","9">> >>)
\* an empty table.
BlobEmpty == TextBlob(<<>>)

NoAggregateBlobs == {BlobNoAggregate, BlobNoCpu, BlobEmpty}

\* /proc/stat does not exist.
BlobNoFile == [io |-> "NoFile", lines |-> <<>>]

\* files whose read fails after a line: a malformed line, a line without a
\* token, a well-formed line.
BlobBadThenIoError == [io |-> "Err", lines |-> <<BadCpuIdLine>>]
BlobBlankThenIoError == [io |-> "Err", lines |-> << <<>> >>]
BlobGoodThenIoError == [io |-> "Err", lines |-> <<CpuLine(CpuPrefix, SysB)>>]
IoErrorBlobs == {BlobBadThenIoError, BlobBlankThenIoError, BlobGoodThenIoError}

ReadInputs ==
    {[blob |-> b, time |-> t] :
        b \in Blobs \cup NoAggregateBlobs \cup IoErrorBlobs \cup {BlobNoFile},
        t \in Instants}

InitRead ==
    /\ inner = [state |-> "Initialized", clock |-> MockStatClock_default,
                source |-> MockStatFile_default, last |-> None]
    /\ overflow_checks \in BOOLEAN
    /\ aborted = FALSE
    /\ calls = 0
    /\ cur = None
    /\ hist = NoHist
    /\ pin \in ReadInputs
    /\ pout = NoPure

\* `Self::read()`.
Read ==
    /\ pout = NoPure
    /\ pout' = Sentinel_read(pin.blob, pin.time)
    /\ UNCHANGED <<inner, overflow_checks, aborted, calls, cur, hist, pin>>

NextRead == Read

SpecRead == InitRead /\ [][NextRead]_vars

(***************************************************************************)
(* percentage() on its own: a Measurement is drawn, and the function is    *)
(* applied to it once.                                                     *)
(***************************************************************************)
\* the most ticks a field of a drawn Measurement holds.
MaxTicks == 40

\* the Measurement of `user` busy ticks, `iowait` waiting ticks and `idle`
\* idle ticks.
MeasurementWith(user, iowait, idle) ==
    CpuTimeOf(<<user, 0, 0, idle, iowait, 0, 0, 0, 0, 0>>)

Measurements ==
    {MeasurementWith(u, w, i) : u \in 0..MaxTicks, w \in 0..1, i \in 0..MaxTicks}

InitPercentage ==
    /\ inner = [state |-> "Initialized", clock |-> MockStatClock_default,
                source |-> MockStatFile_default, last |-> None]
    /\ overflow_checks \in BOOLEAN
    /\ aborted = FALSE
    /\ calls = 0
    /\ cur = None
    /\ hist = NoHist
    /\ pin \in Measurements
    /\ pout = NoPure

\* measurement.percentage(), as App::tui calls it.
Percentage ==
    /\ pout = NoPure
    /\ pout' = percentage(pin, overflow_checks)
    /\ UNCHANGED <<inner, overflow_checks, aborted, calls, cur, hist, pin>>

NextPercentage == Percentage

SpecPercentage == InitPercentage /\ [][NextPercentage]_vars

(***************************************************************************)
(* The line parser on its own: a line is written from a first token and    *)
(* the value tokens that follow it, one space between them, and parsed.    *)
(***************************************************************************)
\* first tokens: the aggregate, processors, cpu with a suffix that is no
\* number, tokens that are no kind, and the kinds without fields.
LineLabels ==
    { <<"c", "p", "u">>,
      <<"c", "p", "u", "0">>,
      <<"c", "p", "u", "1">>,
      <<"c", "p", "u", "7">>,
      <<"c", "p", "u", "0", "7">>,
      <<"c", "p", "u", "4", "2">>,
      <<"c", "p", "u", "2", "5", "5">>,
      <<"c", "p", "u", "2", "5", "6">>,
      <<"c", "p", "u", "3", "0", "0">>,
      <<"c", "p", "u", "1", "0", "0", "0">>,
      <<"c", "p", "u", "A">>,
      <<"c", "p", "u", "a">>,
      <<"c", "p", "u", "-", "1">>,
      <<"c", "p", "u", "1", "x">>,
      <<"c", "p", "u", "+", "1">>,
      <<"c", "p", "u", "+">>,
      <<"w", "r", "o", "n", "g">>,
      <<"C", "p", "u">>,
      <<"c", "p">>,
      <<"c", "p", "x", "0">>,
      <<"c">>,
      <<"i", "n", "t", "r">>,
      <<"p", "a", "g", "e">>,
      <<"c", "t", "x", "t">>,
      <<"s", "o", "f", "t", "i", "r", "q">>,
      <<"s", "w", "a", "p">>,
      <<"d", "i", "s", "k", "_", "i", "o">>,
      <<"b", "t", "i", "m", "e">>,
      <<"p", "r", "o", "c", "e", "s", "s", "e", "s">>,
      <<"p", "r", "o", "c", "s", "_", "r", "u", "n", "n", "i", "n", "g">>,
      <<"p", "r", "o", "c", "s", "_", "b", "l", "o", "c", "k", "e", "d">>,
      <<"p", "a", "g", "e", "x">> }

\* the value tokens of a line: ten, nine, eleven, none; values up to and
\* above the greatest u32; tokens that are no number.
LineValues ==
    { << <<"1", "0">>,
         <<"2">>,
         <<"3">>,
         <<"4", "0">>,
         <<"1">>,
         <<"0">>,
         <<"1">>,
         <<"0">>,
         <<"0">>,
         <<"0">> >>,
      << <<"1", "0", "1", "3", "2", "1", "5", "3">>,
         <<"2", "9", "0", "6", "9", "6">>,
         <<"3", "0", "8", "4", "7", "1", "9">>,
         <<"4", "6", "8", "2", "8", "4", "8", "3">>,
         <<"1", "6", "6", "8", "3">>,
         <<"0">>,
         <<"2", "5", "1", "9", "5">>,
         <<"0">>,
         <<"1", "7", "5", "6", "2", "8">>,
         <<"0">> >>,
      << <<"4", "2", "9", "4", "9", "6", "7", "2", "9", "5">>,
         <<"1">>,
         <<"2">>,
         <<"3">>,
         <<"4">>,
         <<"5">>,
         <<"6">>,
         <<"7">>,
         <<"8">>,
         <<"9">> >>,
      << <<"4", "2", "9", "4", "9", "6", "7", "2", "9", "6">>,
         <<"0">>,
         <<"0">>,
         <<"0">>,
         <<"0">>,
         <<"0">>,
         <<"0">>,
         <<"0">>,
         <<"0">>,
         <<"0">> >>,
      << <<"0">>,
         <<"0">>,
         <<"0">>,
         <<"5", "0", "0", "0", "0", "0", "0", "0", "0", "0">>,
         <<"0">>,
         <<"0">>,
         <<"0">>,
         <<"0">>,
         <<"0">>,
         <<"0">> >>,
      << <<"1", "0", "1", "3", "2", "1", "5", "3">>,
         <<"2", "9", "0", "6", "9", "6">>,
         <<"3", "0", "8", "4", "7", "1", "9">>,
         <<"4", "6", "8", "2", "8", "4", "8", "3">>,
         <<"1", "6", "6", "8", "3">>,
         <<"0">>,
         <<"2", "5", "1", "9", "5">>,
         <<"0">>,
         <<"1", "7", "5", "6", "2", "8">> >>,
      << <<"1", "0", "1", "3", "2", "1", "5", "3">>,
         <<"2", "9", "0", "6", "9", "6">>,
         <<"3", "0", "8", "4", "7", "1", "9">>,
         <<"4", "6", "8", "2", "8", "4", "8", "3">>,
         <<"1", "6", "6", "8", "3">>,
         <<"0">>,
         <<"2", "5", "1", "9", "5">>,
         <<"0">>,
         <<"1", "7", "5", "6", "2", "8">>,
         <<"0">>,
         <<"0">> >>,
      <<>>,
      << <<"1">>,
         <<"2">>,
         <<"x">>,
         <<"4">>,
         <<"5">>,
         <<"6">>,
         <<"7">>,
         <<"8">>,
         <<"9">>,
         <<"1", "0">> >>,
      << <<"1">>,
         <<"x">> >>,
      << <<"5", "0", "0", "0", "0", "0", "0", "0", "0", "0">>,
         <<"1">> >>,
      << <<"0">>,
         <<"0">>,
         <<"0">>,
         <<"0">>,
         <<"0">>,
         <<"0">>,
         <<"0">>,
         <<"0">>,
         <<"0">>,
         <<"0">> >>,
      << <<"1">>,
         <<"2">>,
         <<"3">>,
         <<"-", "4">>,
         <<"5">>,
         <<"6">>,
         <<"7">>,
         <<"8">>,
         <<"9">>,
         <<"1", "0">> >>,
      << <<"7">> >> }

LineInputs == {[label |-> l, values |-> v] : l \in LineLabels, v \in LineValues}

\* the text of the line.
LineOf(in) == JoinSpace(<<in.label>> \o in.values)

InitParse ==
    /\ inner = [state |-> "Initialized", clock |-> MockStatClock_default,
                source |-> MockStatFile_default, last |-> None]
    /\ overflow_checks \in BOOLEAN
    /\ aborted = FALSE
    /\ calls = 0
    /\ cur = None
    /\ hist = NoHist
    /\ pin \in LineInputs
    /\ pout = NoPure

\* `line.parse::<Entry>()`.
Parse ==
    /\ pout = NoPure
    /\ pout' = Entry_from_str(LineOf(pin))
    /\ UNCHANGED <<inner, overflow_checks, aborted, calls, cur, hist, pin>>

NextParse == Parse

SpecParse == InitParse /\ [][NextParse]_vars

(***************************************************************************)
(* active() and total() on their own, on Measurements whose fields reach   *)
(* the greatest value a field holds.                                       *)
(***************************************************************************)
\* 0, 1, 2^31 and 2^32 - 1.
WideTicks == {U32Zero, [hi |-> 0, lo |-> 1], [hi |-> Limb \div 2, lo |-> 0], U32Max}

WideMeasurements ==
    {CpuTime_from(<<u, n, U32Zero, i, U32Zero, U32Zero, U32Zero, U32Zero, U32Zero, g>>) :
        u \in WideTicks, n \in WideTicks, i \in WideTicks, g \in WideTicks}

InitSums ==
    /\ inner = [state |-> "Initialized", clock |-> MockStatClock_default,
                source |-> MockStatFile_default, last |-> None]
    /\ overflow_checks \in BOOLEAN
    /\ aborted = FALSE
    /\ calls = 0
    /\ cur = None
    /\ hist = NoHist
    /\ pin \in WideMeasurements
    /\ pout = NoPure

\* measurement.active() and measurement.total(), as percentage() calls them.
Sums ==
    /\ pout = NoPure
    /\ pout' = [active |-> active(pin, overflow_checks),
                total |-> total(pin, overflow_checks)]
    /\ UNCHANGED <<inner, overflow_checks, aborted, calls, cur, hist, pin>>

NextSums == Sums

SpecSums == InitSums /\ [][NextSums]_vars

(***************************************************************************)
(* The line parser and the space between tokens: a line is written from    *)
(* its tokens with a gap before the first, a gap after the first, a gap    *)
(* between the others and a gap after the last, and parsed; the same       *)
(* tokens one space apart are parsed beside it.                            *)
(***************************************************************************)
Tab == "\t"

\* runs of spaces and tabs.
Gaps == { <<" ">>, <<" ", " ">>, <<Tab>>, <<" ", Tab>>, <<Tab, Tab>> }

\* what may stand before the first token and after the last.
EdgeGaps == { <<>>, <<" ">>, <<" ", " ">>, <<Tab>> }

SpacedTokens ==
    { <<CpuPrefix>> \o [i \in 1..10 |-> Dec(SysA[i])],
      <<CpuPrefix \o <<"1">> >> \o [i \in 1..10 |-> Dec(Cpu1A[i])],
      <<CpuPrefix>> \o [i \in 1..9 |-> Dec(SysA[i])],
      << <<"i", "n", "t", "r">>, <<"7">>, <<"0">> >>,
      << <<"w", "r", "o", "n", "g">>, <<"1">> >> }

SpacedInputs ==
    {[tokens |-> t, lead |-> l, first |-> f, gap |-> g, trail |-> r] :
        t \in SpacedTokens, l \in EdgeGaps, f \in Gaps, g \in Gaps, r \in EdgeGaps}

\* the tokens with one gap between each two of them.
RECURSIVE JoinWith(_, _)
JoinWith(toks, gap) ==
    IF Len(toks) = 0 THEN <<>>
    ELSE IF Len(toks) = 1 THEN toks[1]
    ELSE toks[1] \o gap \o JoinWith(Tail(toks), gap)

\* the text of the line.
SpacedLineOf(in) ==
    in.lead \o in.tokens[1] \o in.first \o JoinWith(Tail(in.tokens), in.gap) \o in.trail

InitSpacing ==
    /\ inner = [state |-> "Initialized", clock |-> MockStatClock_default,
                source |-> MockStatFile_default, last |-> None]
    /\ overflow_checks \in BOOLEAN
    /\ aborted = FALSE
    /\ calls = 0
    /\ cur = None
    /\ hist = NoHist
    /\ pin \in SpacedInputs
    /\ pout = NoPure

\* `line.parse::<Entry>()` of the line as written, and of its tokens one
\* space apart.
ParseSpaced ==
    /\ pout = NoPure
    /\ pout' = [spaced |-> Entry_from_str(SpacedLineOf(pin)),
                plain |-> Entry_from_str(JoinSpace(pin.tokens))]
    /\ UNCHANGED <<inner, overflow_checks, aborted, calls, cur, hist, pin>>

NextSpacing == ParseSpaced

SpecSpacing == InitSpacing /\ [][NextSpacing]_vars

(***************************************************************************)
(* Lines without a token: the parser applied to a line as it stands, and   *)
(* the Sentinel reading tables of which some hold such a line.             *)
(***************************************************************************)
\* lines with no token, beside lines with tokens.
BlankLines == { <<>>, <<" ">>, <<" ", " ", " ">> }

RawLines ==
    BlankLines
    \cup { CpuLine(CpuPrefix, SysA),
           <<" ">> \o CpuLine(CpuPrefix \o <<"0">>, Cpu0A) \o <<" ">>,
           <<"i", "n", "t", "r", " ", "7", " ", "0">>,
           <<"w", "r", "o", "n", "g">>,
           <<"c", "p", "u">> }

RawInputs == {[line |-> l] : l \in RawLines}

\* the table of SampleA with an empty line after it, with an empty line
\* before it, and with a line of spaces after its first line.
BlobBlankLast == TextBlob(TableOf(SampleA) \o << <<>> >>)
BlobBlankFirst == TextBlob(<< <<>> >> \o TableOf(SampleA))
BlobSpacesLine ==
    TextBlob(<<Head(TableOf(SampleA)), <<" ", " ">> >> \o Tail(TableOf(SampleA)))

BlankLineBlobs == {BlobBlankLast, BlobBlankFirst, BlobSpacesLine}

BlankBlobs == {TextBlob(TableOf(SampleA)), TextBlob(TableOf(SampleB))} \cup BlankLineBlobs

InitBlank ==
    /\ \E c \in Clocks, s \in StatsSources :
            inner = [state |-> "Initialized", clock |-> c, source |-> s, last |-> None]
    /\ overflow_checks \in BOOLEAN
    /\ aborted = FALSE
    /\ calls = 0
    /\ cur = None
    /\ hist = NoHist
    /\ pin \in RawInputs
    /\ pout = NoPure

\* `line.parse::<Entry>()`.
ParseRaw ==
    /\ pout = NoPure
    /\ pout' = Entry_from_str(pin.line)
    /\ UNCHANGED <<inner, overflow_checks, aborted, calls, cur, hist, pin>>

\* one call of observe(), the source yielding one of BlankBlobs.
ObserveBlank ==
    /\ ~aborted
    /\ calls < MaxCalls
    /\ \E t \in LastNow..MaxTime, blob \in BlankBlobs :
        \E r \in {observe(inner, overflow_checks, t, blob)} :
            /\ inner' = r.inner
            /\ cur' = [pre |-> inner, time |-> r.time, blob |-> r.blob, ret |-> r.ret]
            /\ aborted' = (r.ret.kind = "Panic")
    /\ calls' = calls + 1
    /\ hist' = NextHist
    /\ UNCHANGED <<overflow_checks, pin, pout>>

NextBlank == ParseRaw \/ ObserveBlank

SpecBlank == InitBlank /\ [][NextBlank]_vars

(***************************************************************************)
(* placeholder() on its own: a percentage and a width are drawn, and the   *)
(* function is applied to them once.                                       *)
(***************************************************************************)
\* the widest meter drawn.
MaxWidth == 34

\* percentages from 0 to 1 and one above, widths from 0.
MeterInputs ==
    {[percentage |-> k, width |-> w] : k \in 0..(PercentUnit + 1), w \in 0..MaxWidth}

InitMeter ==
    /\ inner = [state |-> "Initialized", clock |-> MockStatClock_default,
                source |-> MockStatFile_default, last |-> None]
    /\ overflow_checks \in BOOLEAN
    /\ aborted = FALSE
    /\ calls = 0
    /\ cur = None
    /\ hist = NoHist
    /\ pin \in MeterInputs
    /\ pout = NoPure

\* `placeholder(percentage, width)`.
Placeholder ==
    /\ pout = NoPure
    /\ pout' = placeholder(pin.percentage, pin.width)
    /\ UNCHANGED <<inner, overflow_checks, aborted, calls, cur, hist, pin>>

NextMeter == Placeholder

SpecMeter == InitMeter /\ [][NextMeter]_vars

(***************************************************************************)
(* What the claims speak of.                                               *)
(***************************************************************************)
\* the last call returned Ok(None) / Ok(Some(recording)) / Err(_) / panicked.
ReturnedNone == calls >= 1 /\ cur.ret.kind = "Ok" /\ cur.ret.v.kind = "None"
ReturnedSome == calls >= 1 /\ cur.ret.kind = "Ok" /\ cur.ret.v.kind = "Some"
ReturnedErr == calls >= 1 /\ cur.ret.kind = "Err"
Panicked == calls >= 1 /\ cur.ret.kind = "Panic"
Rec == cur.ret.v.v

\* the last call was made in the Running state / on a fresh Sentinel.
WasRunning == calls >= 1 /\ cur.pre.state = "Running"
\* the last call read a well-formed table.
ReadGood == calls >= 1 /\ cur.blob.kind = "Some" /\ cur.blob.v \in GoodBlobs
\* the snapshot the last call's table and instant stand for.
NewSnapshot == SnapshotOf(SampleOfBlob(cur.blob.v), cur.time.v)
\* the baseline the last call started from.
Baseline == cur.pre.last

\* new - old, field by field, in 32 bits.
DeltaOf(old, new) ==
    [f \in DOMAIN old |-> U32WrappingSub(new[f], old[f])]

\* new = old + delta exactly, in every field.
ExactDelta(old, new, delta) ==
    \A f \in DOMAIN old :
        U32OverflowingAdd(old[f], delta[f]) = [v |-> new[f], overflow |-> FALSE]

FieldSet == {FieldNames[i] : i \in 1..Len(FieldNames)}

\* no counter of new is lower than the same counter of old.
NoDecrease(old, new) == \A f \in FieldSet : U32Le(old[f], new[f])

\* the two snapshots list the same processors, none of whose counters, nor
\* the aggregate's, decreased.
Comparable(old, new) ==
    /\ DOMAIN old.cpus = DOMAIN new.cpus
    /\ NoDecrease(old.system, new.system)
    /\ \A id \in DOMAIN old.cpus : NoDecrease(old.cpus[id], new.cpus[id])

(***************************************************************************)
(* C1..C9: the Sentinel.                                                   *)
(***************************************************************************)
\* C1: the first observe() of a fresh Sentinel, given a well-formed table,
\* returns Ok(None), stores the snapshot it read as the baseline and leaves
\* the Sentinel Running.
C1_FirstCallReturnsNone ==
    (calls = 1 /\ ReadGood) =>
        /\ ReturnedNone
        /\ inner.state = "Running"
        /\ inner.last = NewSnapshot

C1_Witness == calls = 1 /\ ReadGood /\ ReturnedNone /\ inner.state = "Running"

\* C2 as stated: after a first successful call, a second call with a later
\* instant and any well-formed table returns Ok(Some(recording)).
C2_AnyValidTableReturnsSome ==
    (calls = 2 /\ WasRunning /\ ReadGood /\ cur.time.v > Baseline.time) => ReturnedSome

\* C2 amended: after a first successful call, a second call with a later
\* instant and a well-formed table that lists the baseline's processors and
\* in which no counter is lower than the baseline's returns
\* Ok(Some(recording)): not Ok(None), not an error, not a panic.
C2_SecondCallReturnsSome ==
    (calls = 2 /\ WasRunning /\ ReadGood /\ cur.time.v > Baseline.time
        /\ Comparable(Baseline, NewSnapshot)) => ReturnedSome

C2_Witness ==
    calls = 2 /\ WasRunning /\ ReadGood /\ cur.time.v > Baseline.time
        /\ Comparable(Baseline, NewSnapshot) /\ ReturnedSome

\* C3: a read that fails in the Running state (a parse error, an I/O error)
\* returns the error and leaves the baseline as it was; the recording of the
\* next successful call starts at that baseline and is its difference to the
\* new snapshot.
C3_FailedReadKeepsBaseline ==
    /\ (WasRunning /\ (ReturnedErr \/ (calls >= 1 /\ cur.blob.kind = "Some"
                                        /\ cur.blob.v \in MalformedBlobs \cup {BlobIoError})))
            => /\ ReturnedErr
               /\ inner.state = "Running"
               /\ inner.last = Baseline
    /\ (ReturnedSome /\ hist.failed /\ hist.ok.kind = "Some")
            => /\ Rec.start = hist.ok.time
               /\ Rec.system = DeltaOf(SnapshotOf(SampleOfBlob(hist.ok.blob), 0).system,
                                       NewSnapshot.system)

C3_Witness ==
    /\ ReturnedSome /\ hist.failed /\ hist.ok.kind = "Some"
    /\ Rec.start = hist.ok.time

\* the call before the last one failed on a malformed line.
FailedBefore == calls >= 2 /\ hist.err = [kind |-> "Some", tag |-> "Entry"]

\* C4: a call that fails on a malformed line, in either state, leaves the
\* Sentinel in the state it was in, with the clock and the source it had;
\* the next call, given a well-formed table, returns Ok: Ok(None) if there was
\* no baseline yet, and Ok(Some(recording)) if there was one (the instant
\* being later than the baseline's, and the table listing the baseline's
\* processors with no counter lower than the baseline's).
C4_FailedCallKeepsClockAndSource ==
    /\ (ReturnedErr /\ cur.ret.err.tag = "Entry") =>
            /\ inner.state = cur.pre.state
            /\ inner.clock = cur.pre.clock
            /\ inner.source = cur.pre.source
    /\ (FailedBefore /\ ReadGood /\ ~WasRunning) => ReturnedNone
    /\ (FailedBefore /\ ReadGood /\ WasRunning /\ cur.time.v > Baseline.time
            /\ Comparable(Baseline, NewSnapshot)) => ReturnedSome

C4_Witness ==
    /\ FailedBefore /\ ReadGood /\ ~WasRunning /\ ReturnedNone
    /\ inner.clock = SystemClock /\ inner.source = ProcStatFile

\* C5: a successful call in the Running state replaces the baseline with the
\* snapshot just read and changes nothing else; the recording of the next
\* successful call starts where this one ended and is the difference to this
\* call's counters.
C5_SuccessReplacesBaseline ==
    /\ (WasRunning /\ ReturnedSome)
            => /\ inner.last = NewSnapshot
               /\ inner.state = "Running"
               /\ inner.clock = cur.pre.clock
               /\ inner.source = cur.pre.source
    /\ (ReturnedSome /\ hist.ok.kind = "Some" /\ hist.ok.ret.kind = "Some")
            => /\ Rec.start = hist.ok.ret.v.end
               /\ Rec.system = DeltaOf(SnapshotOf(SampleOfBlob(hist.ok.blob), 0).system,
                                       NewSnapshot.system)
               /\ \A id \in DOMAIN Rec.cpus :
                    Rec.cpus[id] = DeltaOf(SnapshotOf(SampleOfBlob(hist.ok.blob), 0).cpus[id],
                                           NewSnapshot.cpus[id])

C5_Witness ==
    /\ ReturnedSome /\ hist.ok.kind = "Some" /\ hist.ok.ret.kind = "Some"
    /\ ~hist.failed /\ inner.last = NewSnapshot

\* C6: a recording starts at the baseline's timestamp and ends at the new
\* snapshot's, the end being strictly later; a call whose instant is not
\* later than the baseline's panics.
C6_RecordingBounds ==
    /\ ReturnedSome => /\ Rec.start = Baseline.time
                       /\ Rec.end = cur.time.v
                       /\ Rec.end > Rec.start
    /\ (WasRunning /\ ReadGood /\ cur.time.v <= Baseline.time) => Panicked

C6_Witness ==
    /\ WasRunning /\ ReadGood /\ cur.time.v = Baseline.time
    /\ Panicked /\ cur.ret.msg = "assertion failed: time_b > time_a"

\* C7: a recording lists exactly the processors of both snapshots; a call
\* whose table lists another number of processors, or another id at some
\* position of the ascending walk, panics.
C7_SameProcessors ==
    /\ ReturnedSome => /\ DOMAIN Rec.cpus = DOMAIN Baseline.cpus
                       /\ DOMAIN Rec.cpus = DOMAIN NewSnapshot.cpus
    /\ (WasRunning /\ ReadGood /\ DOMAIN Baseline.cpus # DOMAIN NewSnapshot.cpus) => Panicked

C7_Witness ==
    /\ WasRunning /\ ReadGood /\ Panicked
    /\ Cardinality(DOMAIN Baseline.cpus) = Cardinality(DOMAIN NewSnapshot.cpus)
    /\ cur.ret.msg = "assertion failed: id_a == id_b"

\* C8: every field of every measurement of a recording is the new
\* snapshot's value of that field minus the old snapshot's, for the same
\* processor.
C8_FieldwiseDifference ==
    ReturnedSome =>
        /\ ExactDelta(Baseline.system, NewSnapshot.system, Rec.system)
        /\ \A id \in DOMAIN Rec.cpus :
                ExactDelta(Baseline.cpus[id], NewSnapshot.cpus[id], Rec.cpus[id])

\* C9: no recording is returned in which a field was computed from a counter
\* that decreased between the two snapshots.
C9_NoRecordingOfDecrease ==
    ReturnedSome =>
        /\ NoDecrease(Baseline.system, NewSnapshot.system)
        /\ \A id \in DOMAIN Baseline.cpus \cap DOMAIN NewSnapshot.cpus :
                NoDecrease(Baseline.cpus[id], NewSnapshot.cpus[id])

\* the exact sum of the fields named (the fields drawn are far below 2^16).
RECURSIVE ExactSum(_, _, _)
ExactSum(m, names, i) ==
    IF i > Len(names) THEN 0 ELSE m[names[i]].lo + ExactSum(m, names, i + 1)

ExactTotal(m) == ExactSum(m, FieldNames, 1)
ExactActive(m) == ExactTotal(m) - m.idle.lo

\* 100 * a / t rounded to the nearest integer, an exact half rounded up.
RoundHalfUp(a, t) == (200 * a + t) \div (2 * t)

\* percentage() has been applied to the Measurement drawn.
Applied == pout # NoPure

\* C10: for every Measurement with total > 0, percentage() returns an
\* integer from 0 to 100 that is 100 * active / total rounded to the nearest
\* integer, an exact half rounded up.
C10_PercentageCorrectlyRounded ==
    (Applied /\ ExactTotal(pin) > 0) =>
        /\ pout.kind = "Ok"
        /\ pout.v \in 0..100
        /\ pout.v = RoundHalfUp(ExactActive(pin), ExactTotal(pin))

(***************************************************************************)
(* C11, C13: the Sentinel again.                                           *)
(***************************************************************************)
\* total() of the measurement is made and is above zero.
TotalPositive(m) ==
    /\ total(m, overflow_checks).kind = "Ok"
    /\ total(m, overflow_checks).v # U32Zero

\* C11: every measurement of a recording that observe returns, the aggregate
\* one and each processor's, has total > 0, so that percentage() never
\* divides by zero.
C11_TotalPositive ==
    ReturnedSome =>
        /\ TotalPositive(Rec.system)
        /\ \A id \in DOMAIN Rec.cpus : TotalPositive(Rec.cpus[id])

\* C13: a Sentinel that was Running before a call is Running after it,
\* whatever the call returned; it leaves Initialized only through a call
\* whose read succeeded (the call that returns Ok(None)), and a failed call
\* on a Sentinel that is Initialized leaves it Initialized.
C13_RunningNeverReverts ==
    calls >= 1 =>
        /\ cur.pre.state = "Running" => inner.state = "Running"
        /\ (cur.pre.state = "Initialized" /\ inner.state = "Running") => ReturnedNone
        /\ (cur.pre.state = "Initialized" /\ ~ReturnedNone) => inner.state = "Initialized"

C13_Witness ==
    /\ calls >= 3 /\ WasRunning /\ ReturnedErr /\ inner.state = "Running"
    /\ hist.ok.kind = "Some"

(***************************************************************************)
(* C12: the sums.                                                          *)
(***************************************************************************)
\* the exact sum of the fields named, as a number of any width: hi counts
\* the multiples of 2^16 and is not cut off.
RECURSIVE WideSum(_, _, _, _)
WideSum(m, names, i, acc) ==
    IF i > Len(names) THEN [hi |-> acc.hi + (acc.lo \div Limb), lo |-> acc.lo % Limb]
    ELSE WideSum(m, names, i + 1,
                 [hi |-> acc.hi + m[names[i]].hi, lo |-> acc.lo + m[names[i]].lo])

WideTotal(m) == WideSum(m, FieldNames, 1, [hi |-> 0, lo |-> 0])
WideActive(m) ==
    WideSum(m, SelectSeq(FieldNames, LAMBDA f : f # "idle"), 1, [hi |-> 0, lo |-> 0])

\* C12: active() is the exact sum of the nine fields other than idle and
\* total() the exact sum of all ten, without wraparound, for every value a
\* field can hold; and so active() + idle = total().
C12_ExactSums ==
    (Applied /\ pin \in WideMeasurements) =>
        /\ pout.active.kind = "Ok"
        /\ pout.active.v = WideActive(pin)
        /\ pout.total.kind = "Ok"
        /\ pout.total.v = WideTotal(pin)
        /\ WideSum([a |-> pout.active.v, i |-> pin.idle], <<"a", "i">>, 1,
                   [hi |-> 0, lo |-> 0]) = pout.total.v

(***************************************************************************)
(* C14: a table without the aggregate line.                                *)
(***************************************************************************)
\* a table without a "cpu" line has been read.
ReadNoAggregate == pout # NoPure /\ pin \in ReadInputs /\ pin.blob \in NoAggregateBlobs

\* C14: building a Snapshot from a table that has no aggregate "cpu" line
\* fails with MissingAggregateEntry, and no Snapshot is made of the table.
C14_MissingAggregateFails ==
    ReadNoAggregate =>
        /\ pout.kind = "Err"
        /\ pout.err = [tag |-> "MissingAggregateEntry"]

(***************************************************************************)
(* C15..C20: the line parser.                                              *)
(***************************************************************************)
\* a line has been parsed.
Parsed == pout # NoPure /\ pin \in LineInputs

\* the token is made of decimal digits / is the decimal numeral of a number
\* (no sign, no leading zero) / is a non-negative integer written with or
\* without a "+".
IsNumeral(s) == Len(s) > 0 /\ \A i \in 1..Len(s) : IsDigit(s[i])
IsCanonical(s) == IsNumeral(s) /\ (Len(s) = 1 \/ s[1] # "0")
IsInteger(s) == IsNumeral(s) \/ (Len(s) > 1 /\ s[1] = "+" /\ IsNumeral(Tail(s)))

\* the number a short numeral, with or without "+", stands for.
RECURSIVE NumeralValue(_)
NumeralValue(s) ==
    IF Len(s) = 0 THEN 0
    ELSE IF s[1] = "+" THEN NumeralValue(Tail(s))
    ELSE 10 * NumeralValue(SubSeq(s, 1, Len(s) - 1)) + DigitVal(s[Len(s)])

\* the decimal numeral of a 32-bit value.
RECURSIVE U32Dec(_)
U32Dec(v) ==
    IF v.hi = 0 /\ v.lo < 10 THEN <<Digits[v.lo + 1]>>
    ELSE Append(U32Dec([hi |-> v.hi \div 10, lo |-> ((v.hi % 10) * Limb + v.lo) \div 10]),
                Digits[(((v.hi % 10) * Limb + v.lo) % 10) + 1])

\* the canonical numeral stands for a number below 2^32.
FitsU32(s) ==
    \/ Len(s) < 10
    \/ /\ Len(s) = 10
       /\ \E k \in 1..11 :
            /\ \A i \in 1..(k - 1) : s[i] = U32Dec(U32Max)[i]
            /\ k = 11 \/ DigitVal(s[k]) < DigitVal(U32Dec(U32Max)[k])

\* the first token is "cpu" and something / what follows "cpu" in it.
StartsWithCpu(tok) == Len(tok) >= 3 /\ SubSeq(tok, 1, 3) = CpuPrefix
Suffix(tok) == SubSeq(tok, 4, Len(tok))

\* the first token is "cpu" followed by characters that are no non-negative
\* integer.
BadCpuSuffix(tok) == StartsWithCpu(tok) /\ Len(tok) > 3 /\ ~IsInteger(Suffix(tok))

\* ten numerals of at most nine digits.
TenSmallValues(values) ==
    Len(values) = 10 /\ \A i \in 1..10 : IsCanonical(values[i]) /\ Len(values[i]) <= 9

KnownKindNames == {KnownKinds[i].name : i \in 1..Len(KnownKinds)}

FailedWith(tag) == pout.kind = "Err" /\ pout.err.tag = tag

\* C15: a line "cpu" and ten numerals parses to the aggregate entry whose
\* ten fields hold the ten values in order, and the record converted back to
\* its ten values gives the numerals of the line, also for values of 2^32 and
\* above.
C15_ParseRoundTrip ==
    (Parsed /\ pin.label = CpuPrefix /\ Len(pin.values) = 10
        /\ \A i \in 1..10 : IsCanonical(pin.values[i])) =>
        /\ pout.kind = "Ok"
        /\ pout.entry.tag = "AllCpu"
        /\ \A i \in 1..10 : U32Dec(pout.entry.time[FieldNames[i]]) = pin.values[i]
        /\ [i \in 1..10 |-> U32Dec(CpuTime_into(pout.entry.time)[i])] = pin.values

\* C16: a line "cpu<N>" and ten values parses to the entry of processor N,
\* for every N; "cpu" alone parses to the aggregate.
C16_CpuKeyedByN ==
    (Parsed /\ TenSmallValues(pin.values)) =>
        /\ (StartsWithCpu(pin.label) /\ IsNumeral(Suffix(pin.label)))
                => /\ pout.kind = "Ok"
                   /\ pout.entry.tag = "Cpu"
                   /\ pout.entry.id = NumeralValue(Suffix(pin.label))
        /\ pin.label = CpuPrefix => (pout.kind = "Ok" /\ pout.entry.tag = "AllCpu")

\* C17: a line whose first token is "cpu" followed by characters that are no
\* non-negative integer ("cpuA", "cpua") fails with CpuIdParse, and not with
\* UnrecognizedEntry, whatever follows the token.
C17_BadCpuIdIsCpuIdParse ==
    (Parsed /\ BadCpuSuffix(pin.label)) =>
        /\ FailedWith("CpuIdParse")
        /\ ~FailedWith("UnrecognizedEntry")

C17_Witness ==
    /\ Parsed /\ pin.label = <<"c", "p", "u", "A">>
    /\ pin.values = [i \in 1..10 |-> <<"0">>]
    /\ FailedWith("CpuIdParse")

\* C18 as stated: a line whose first token is "cpu" followed by characters
\* that are no non-negative integer fails with UnrecognizedEntry.
C18_BadCpuSuffixIsUnrecognized ==
    (Parsed /\ BadCpuSuffix(pin.label)) => FailedWith("UnrecognizedEntry")

\* C18 amended: such a line fails with CpuIdParse, which carries the
\* diagnostic of the integer parser (an invalid digit); UnrecognizedEntry is
\* the failure of a first token that does not start with "cpu", and of no
\* other.
C18_BadCpuSuffixCarriesDiagnostic ==
    Parsed =>
        /\ BadCpuSuffix(pin.label)
                => (FailedWith("CpuIdParse") /\ pout.err.e = "InvalidDigit")
        /\ FailedWith("UnrecognizedEntry") => ~StartsWithCpu(pin.label)

C18_Witness ==
    /\ Parsed /\ pin.label = <<"c", "p", "u", "-", "1">>
    /\ FailedWith("CpuIdParse") /\ pout.err.e = "InvalidDigit"

\* C19: a line whose first token is no known kind and does not start with
\* "cpu" fails with UnrecognizedEntry carrying that token, whatever follows.
C19_UnknownKindIsUnrecognized ==
    (Parsed /\ pin.label \notin KnownKindNames /\ ~StartsWithCpu(pin.label)) =>
        pout = [kind |-> "Err",
                err |-> [tag |-> "UnrecognizedEntry", token |-> pin.label]]

C19_Witness ==
    /\ Parsed /\ pin.label = <<"w", "r", "o", "n", "g">> /\ Len(pin.values) = 2
    /\ FailedWith("UnrecognizedEntry") /\ pout.err.token = pin.label

\* the first token is "cpu" or "cpu<N>" with an N that is a processor id.
IdAccepted(tok) ==
    /\ StartsWithCpu(tok)
    /\ Len(tok) = 3 \/ (IsInteger(Suffix(tok)) /\ Len(tok) <= 9
                         /\ NumeralValue(Suffix(tok)) <= U8Max)

\* the value token is a counter value.
ValueAccepted(tok) == IsCanonical(tok) /\ FitsU32(tok)

\* C20 as stated: a cpu or cpu<N> line with fewer or more than ten value
\* tokens fails with EntryParseError::CpuTime.
C20_WrongCountIsCpuTime ==
    (Parsed /\ StartsWithCpu(pin.label)
        /\ (Len(pin.label) = 3 \/ IsNumeral(Suffix(pin.label)))
        /\ Len(pin.values) # 10) => FailedWith("CpuTime")

\* C20 amended: such a line never yields an entry and never fails with
\* UnrecognizedEntry; it fails with CpuIdParse when N is no processor id,
\* else with UserHzParse when a value token is no counter value, and else
\* with CpuTime.
C20_WrongCountNeverParses ==
    (Parsed /\ StartsWithCpu(pin.label) /\ Len(pin.values) # 10) =>
        /\ pout.kind = "Err"
        /\ ~FailedWith("UnrecognizedEntry")
        /\ ~IdAccepted(pin.label) => FailedWith("CpuIdParse")
        /\ (IdAccepted(pin.label)
                /\ \E i \in 1..Len(pin.values) : ~ValueAccepted(pin.values[i]))
            => FailedWith("UserHzParse")
        /\ (IdAccepted(pin.label)
                /\ \A i \in 1..Len(pin.values) : ValueAccepted(pin.values[i]))
            => FailedWith("CpuTime")

C20_Witness ==
    /\ Parsed /\ pin.label = <<"c", "p", "u", "7">> /\ Len(pin.values) = 11
    /\ FailedWith("CpuTime")

(***************************************************************************)
(* C21..C23, C25: value tokens, kinds without fields, spacing, totality.   *)
(***************************************************************************)
\* the first token is "cpu" or "cpu<N>", N written in digits.
IsCpuLabel(tok) == StartsWithCpu(tok) /\ (Len(tok) = 3 \/ IsNumeral(Suffix(tok)))

\* some value token is no non-negative integer.
SomeBadValue(values) == \E i \in 1..Len(values) : ~IsInteger(values[i])

\* the diagnostic of the first value token that does not parse.
FirstBadDiagnostic(values) ==
    UserHz_from_str(values[CHOOSE i \in 1..Len(values) :
                                /\ UserHz_from_str(values[i]).kind = "Err"
                                /\ \A j \in 1..(i - 1) :
                                        UserHz_from_str(values[j]).kind = "Ok"]).e

\* C21: a cpu or cpu<N> line in which some value token is no non-negative
\* integer fails with UserHzParse carrying the diagnostic of the integer
\* parser, whatever the number of value tokens, and yields no entry.
C21_BadValueIsUserHzParse ==
    (Parsed /\ IsCpuLabel(pin.label) /\ SomeBadValue(pin.values)) =>
        /\ pout.kind = "Err"
        /\ FailedWith("UserHzParse")
        /\ pout.err.e = FirstBadDiagnostic(pin.values)

\* the entry the parser returns for each first token that names a kind
\* without fields.
IgnoredEntryOf(tok) ==
    CASE tok = <<"p", "a", "g", "e">> -> "Page"
      [] tok = <<"s", "w", "a", "p">> -> "Swap"
      [] tok = <<"i", "n", "t", "r">> -> "Intr"
      [] tok = <<"d", "i", "s", "k", "_", "i", "o">> -> "DiskIo"
      [] tok = <<"c", "t", "x", "t">> -> "Ctxt"
      [] tok = <<"b", "t", "i", "m", "e">> -> "Btime"
      [] tok = <<"p", "r", "o", "c", "e", "s", "s", "e", "s">> -> "Processes"
      [] tok = <<"p", "r", "o", "c", "s", "_", "r", "u", "n", "n", "i", "n", "g">>
            -> "ProcsRunning"
      [] tok = <<"p", "r", "o", "c", "s", "_", "b", "l", "o", "c", "k", "e", "d">>
            -> "ProcsBlocked"
      [] tok = <<"s", "o", "f", "t", "i", "r", "q">> -> "SoftIrq"

\* C22: a line whose first token is one of the ten kinds without fields
\* parses to the entry of that kind, which carries no field, whatever
\* tokens follow; it yields no cpu entry and no error.
C22_KnownKindsParse ==
    (Parsed /\ pin.label \in KnownKindNames) =>
        /\ pout.kind = "Ok"
        /\ pout.entry = [tag |-> IgnoredEntryOf(pin.label)]
        /\ pout.entry.tag \notin {"AllCpu", "Cpu"}

C22_Witness ==
    /\ Parsed /\ pin.label = <<"s", "o", "f", "t", "i", "r", "q">>
    /\ SomeBadValue(pin.values)
    /\ pout = [kind |-> "Ok", entry |-> [tag |-> "SoftIrq"]]

\* a line has been parsed beside its tokens one space apart.
ParsedSpaced == pout # NoPure /\ pin \in SpacedInputs

\* C23: any run of spaces and tabs between tokens, before the first and
\* after the last, separates the tokens and makes no empty token: a line
\* parses to the result of its tokens one space apart.
C23_WhitespaceRunsSeparate ==
    ParsedSpaced => pout.spaced = pout.plain

\* the read of the last call got a table that holds a line without a
\* token.
ReadBlankLine == calls >= 1 /\ cur.blob # None /\ cur.blob.v \in BlankLineBlobs

\* C25: the parser returns an entry or an error for every line, an empty
\* line and a line of spaces included, and never aborts; observe() on a
\* table that holds such a line returns (an error, or a result without the
\* line) and does not abort.
C25_ParsingIsTotal ==
    /\ (pout # NoPure /\ pin \in RawInputs) => pout.kind \in {"Ok", "Err"}
    /\ ReadBlankLine => cur.ret.kind # "Panic"

(***************************************************************************)
(* C24: the meter.                                                         *)
(***************************************************************************)
\* placeholder() has been applied to a percentage in [0, 1] and a width
\* above 0.
Drawn ==
    /\ pout # NoPure /\ pin \in MeterInputs
    /\ pin.percentage <= PercentUnit /\ pin.width > 0

\* round(8 * width * percentage), a half rounded up.
Dots(in) == (2 * 8 * in.width * in.percentage + PercentUnit) \div (2 * PercentUnit)

\* C24: for a percentage in [0, 1] and a width above 0, placeholder returns
\* width cells; with n = round(8 * width * percentage), the first n div 8
\* cells are full, the next one, if there is one, shows n mod 8 dots, and
\* the others are empty; a percentage of 1 gives width full cells and a
\* percentage of 0 gives width empty cells.
C24_PlaceholderCells ==
    Drawn =>
        /\ pout.kind = "Ok"
        /\ Len(pout.cells) = pin.width
        /\ \A i \in 1..pin.width :
                pout.cells[i] = IF i <= Dots(pin) \div 8 THEN 8
                                ELSE IF i = (Dots(pin) \div 8) + 1 THEN Dots(pin) % 8
                                ELSE 0
        /\ pin.percentage = PercentUnit => \A i \in 1..pin.width : pout.cells[i] = 8
        /\ pin.percentage = 0 => \A i \in 1..pin.width : pout.cells[i] = 0

====
